---- MODULE Spec2Model ----
(***************************************************************************)
(* A model of the earn-points application:                                 *)
(*   - the provisioning script (table user_profiles, row level security,   *)
(*     three policies, two functions, two guarded triggers) run statement  *)
(*     by statement against a store that holds the identity table          *)
(*     auth.users, together with the statements clients and the identity   *)
(*     service issue against that store;                                   *)
(*   - the membership classifier of the Home and the Profile screen;       *)
(*   - the splash/router screen, the two screens' profile fetch and        *)
(*     pull-to-refresh, and the Profile screen's sign-out.                 *)
(***************************************************************************)
EXTENDS Integers, Sequences, FiniteSets, TLC

\* ------------------------------------------------------------------ bounds

\* The clock of the store runs from 0 to MaxTime.
MaxTime == 2
\* The provisioning script is started at most MaxRuns times.
MaxRuns == 2
\* The screens have at most MaxInFlight calls of fetchUserProfile awaiting the store.
MaxInFlight == 2
\* The classifier is applied to the balances 0..MaxPoints.
MaxPoints == 10001

\* ----------------------------------------------------------- value domains

\* Identities (auth.users.id) and the e-mail addresses they sign up with.
Ids == {"u1", "u2"}
Emails == {"a@x.com", "b@x.com"}
\* SQL NULL of a text column, and a JSON object without the key full_name.
NULL == "<null>"
\* null, where the other values are records (a row, a membership level).
Null == [null |-> TRUE]
\* raw_user_meta_data->>'full_name' of a signup.
MetaNames == {NULL, "Ann"}

\* part_000:65, the points the signup trigger grants.
InitialPoints == 1000
\* part_000:28, points integer DEFAULT 0.
DefaultPoints == 0

\* The catalog names the script creates.
PolicyNames ==
    {"Users can read own profile", "Users can update own profile",
     "Users can insert own profile"}
TriggerNames == {"on_auth_user_created", "update_user_profiles_updated_at"}
FunctionNames == {"handle_new_user", "update_updated_at_column"}
\* The statements of the script, in order.
LastStatement == 9

VARIABLES
    \* the store
    auth_users,     \* rows of auth.users: [id, email]
    user_profiles,  \* rows of user_profiles
    tableExists,    \* user_profiles has been created
    rlsEnabled,     \* row level security is enabled on user_profiles
    pg_policy,      \* policy name -> number of policies of that name on the table
    pg_proc,        \* the functions that exist
    pg_trigger,     \* trigger name -> number of triggers of that name
    now,            \* what now() returns: the start time of the current transaction
    run,            \* the provisioning script: [n, pc, status]
    provisioned,    \* ids inserted into auth.users while on_auth_user_created existed
    lastOp,         \* the last statement executed against the store and its outcome
    \* the authentication context (useAuth)
    user,           \* the current identity, or NULL
    authLoading,    \* the authentication state is unresolved
    \* navigation and the splash/router screen (IndexScreen)
    route,          \* the screen the router shows
    indexEffectDue, \* IndexScreen's effect is due: mount, or [user, loading] changed
    indexNavs,      \* the router.replace calls IndexScreen has made: [to, user]
    \* the Home and the Profile screen, each field a function of the screen
    mounted,        \* the screen is mounted
    userProfile,    \* useState<UserProfile | null>(null)
    loading,        \* useState(true)
    refreshing,     \* useState(false)
    fetchDue,       \* the effect on [user] is due: mount, or user changed
    inFlight,       \* the fetchUserProfile calls awaiting the store: [kind, uid]
    alert,          \* the message of the last Alert.alert('Error', ...) shown, or NULL
    lastFetch,      \* the last fetchUserProfile to end: [kind, outcome]
    \* the Profile screen's sign-out
    prompt,         \* the 'Sign Out' confirmation is shown
    signOutCall,    \* onPress: "idle", "pending" (awaiting signOut()), "resolved"
    signOutResult,  \* how the last signOut() ended: "none", "cleared", "failed"
    \* the membership classifier, applied to a balance
    balance,        \* the points the classifier is applied to
    homeLevel,      \* HomeScreen.getMembershipLevel(balance), or Null before the call
    profileLevel    \* ProfileScreen.getMembershipLevel(balance), or Null before the call

storeVars ==
    <<auth_users, user_profiles, tableExists, rlsEnabled, pg_policy, pg_proc,
      pg_trigger, now, run, provisioned, lastOp>>

authVars == <<user, authLoading>>
navVars == <<route, indexEffectDue, indexNavs>>
screenVars ==
    <<mounted, userProfile, loading, refreshing, fetchDue, inFlight, alert, lastFetch>>
signOutVars == <<prompt, signOutCall, signOutResult>>
classifierVars == <<balance, homeLevel, profileLevel>>
appVars == <<authVars, navVars, screenVars, signOutVars>>

vars == <<storeVars, appVars, classifierVars>>

\* A statement's kind, the authenticated identity that issued it (NULL for the
\* script and the identity service) and its outcome: "ok", "error" (the
\* statement is rolled back) or "filtered" (the policies hide the row: no row
\* is touched, no error).
Op(op, uid, result) == [op |-> op, uid |-> uid, result |-> result]
NoOp == Op("none", NULL, "ok")

\* ------------------------------------------------------------- the store

AuthIds == {u.id : u \in auth_users}
ProfileIds == {r.id : r \in user_profiles}
RowsOf(id) == {r \in user_profiles : r.id = id}

\* COALESCE(x, d)
Coalesce(x, d) == IF x = NULL THEN d ELSE x

\* The next statement of the script, or the end of the run.
Advance(status) ==
    IF status = "error"
    THEN [n |-> run.n, pc |-> 0, status |-> "error"]
    ELSE IF run.pc = LastStatement
         THEN [n |-> run.n, pc |-> 0, status |-> "completed"]
         ELSE [n |-> run.n, pc |-> run.pc + 1, status |-> "running"]

Ddl(result) == Op("ddl", NULL, result)

\* The script is started (again).
StartRun ==
    /\ run.pc = 0
    /\ run.n < MaxRuns
    /\ run' = [n |-> run.n + 1, pc |-> 1, status |-> "running"]
    /\ lastOp' = Ddl("ok")
    /\ UNCHANGED <<auth_users, user_profiles, tableExists, rlsEnabled, pg_policy,
                   pg_proc, pg_trigger, now, provisioned,
                   appVars, classifierVars>>

\* CREATE TABLE IF NOT EXISTS user_profiles (...)
CreateTable ==
    /\ run.pc = 1
    /\ tableExists' = TRUE
    /\ run' = Advance("ok")
    /\ lastOp' = Ddl("ok")
    /\ UNCHANGED <<auth_users, user_profiles, rlsEnabled, pg_policy, pg_proc,
                   pg_trigger, now, provisioned,
                   appVars, classifierVars>>

\* ALTER TABLE user_profiles ENABLE ROW LEVEL SECURITY
EnableRls ==
    /\ run.pc = 2
    /\ rlsEnabled' = TRUE
    /\ run' = Advance("ok")
    /\ lastOp' = Ddl("ok")
    /\ UNCHANGED <<auth_users, user_profiles, tableExists, pg_policy, pg_proc,
                   pg_trigger, now, provisioned,
                   appVars, classifierVars>>

\* CREATE POLICY name ON user_profiles ...: an error when the table already
\* has a policy of that name, and the script stops there.
CreatePolicy(pc, name) ==
    /\ run.pc = pc
    /\ IF pg_policy[name] > 0
       THEN /\ run' = Advance("error")
            /\ lastOp' = Ddl("error")
            /\ UNCHANGED pg_policy
       ELSE /\ pg_policy' = [pg_policy EXCEPT ![name] = @ + 1]
            /\ run' = Advance("ok")
            /\ lastOp' = Ddl("ok")
    /\ UNCHANGED <<auth_users, user_profiles, tableExists, rlsEnabled, pg_proc,
                   pg_trigger, now, provisioned,
                   appVars, classifierVars>>

CreatePolicyRead == CreatePolicy(3, "Users can read own profile")
CreatePolicyUpdate == CreatePolicy(4, "Users can update own profile")
CreatePolicyInsert == CreatePolicy(5, "Users can insert own profile")

\* CREATE OR REPLACE FUNCTION name() ...
CreateOrReplaceFunction(pc, name) ==
    /\ run.pc = pc
    /\ pg_proc' = pg_proc \cup {name}
    /\ run' = Advance("ok")
    /\ lastOp' = Ddl("ok")
    /\ UNCHANGED <<auth_users, user_profiles, tableExists, rlsEnabled, pg_policy,
                   pg_trigger, now, provisioned,
                   appVars, classifierVars>>

CreateHandleNewUser == CreateOrReplaceFunction(6, "handle_new_user")
CreateUpdateUpdatedAtColumn == CreateOrReplaceFunction(8, "update_updated_at_column")

\* DO $$ IF NOT EXISTS (SELECT 1 FROM pg_trigger WHERE tgname = name)
\*       THEN CREATE TRIGGER name ... END IF $$
CreateTriggerGuarded(pc, name) ==
    /\ run.pc = pc
    /\ pg_trigger' = IF pg_trigger[name] = 0
                     THEN [pg_trigger EXCEPT ![name] = @ + 1]
                     ELSE pg_trigger
    /\ run' = Advance("ok")
    /\ lastOp' = Ddl("ok")
    /\ UNCHANGED <<auth_users, user_profiles, tableExists, rlsEnabled, pg_policy,
                   pg_proc, now, provisioned,
                   appVars, classifierVars>>

CreateOnAuthUserCreated == CreateTriggerGuarded(7, "on_auth_user_created")
CreateUpdatedAtTrigger == CreateTriggerGuarded(9, "update_user_profiles_updated_at")

\* The constraints of user_profiles on a row r to be stored beside `others`:
\* id PRIMARY KEY REFERENCES auth.users(id), email UNIQUE NOT NULL.
ConstraintsHold(r, others, users) ==
    /\ r.id \notin {o.id : o \in others}
    /\ r.id \in {u.id : u \in users}
    /\ r.email # NULL
    /\ r.email \notin {o.email : o \in others}

HandleNewUserRow_NoCoalesce(new) ==
    [id |-> new.id, email |-> new.email, full_name |-> new.full_name,
     points |-> InitialPoints, created_at |-> now, updated_at |-> now]

\* The row handle_new_user() inserts for the new auth.users row (NEW).
HandleNewUserRow(new) ==
    [id |-> new.id, email |-> new.email,
     full_name |-> Coalesce(new.full_name, ""),
     points |-> InitialPoints, created_at |-> now, updated_at |-> now]

ReadUsing_Everyone(uid, r) == TRUE

\* The policies' expressions, auth.uid() being uid.
ReadUsing(uid, r) == uid = r.id
UpdateUsing(uid, r) == uid = r.id
UpdateCheck(uid, r) == uid = r.id
InsertCheck(uid, r) == uid = r.id

\* What row level security lets the role authenticated do.  A table without
\* row level security is not restricted by policies; with it, a command passes
\* only through a policy FOR that command, and there is none FOR DELETE.
CanSelect(uid, r) ==
    ~rlsEnabled \/ (pg_policy["Users can read own profile"] > 0 /\ ReadUsing(uid, r))
CanUpdateFrom(uid, r) ==
    ~rlsEnabled \/ (pg_policy["Users can update own profile"] > 0 /\ UpdateUsing(uid, r))
CanUpdateTo(uid, r) ==
    ~rlsEnabled \/ (pg_policy["Users can update own profile"] > 0 /\ UpdateCheck(uid, r))
CanInsert(uid, r) ==
    ~rlsEnabled \/ (pg_policy["Users can insert own profile"] > 0 /\ InsertCheck(uid, r))
CanDelete(uid, r) ==
    ~rlsEnabled

\* The rows a SELECT by uid sees.
VisibleRows(uid) == {r \in user_profiles : CanSelect(uid, r)}

\* INSERT INTO auth.users by the identity service, meta being the new row's
\* raw_user_meta_data->>'full_name' (nothing else reads it, and auth_users does
\* not keep it).  AFTER INSERT every trigger
\* on_auth_user_created runs handle_new_user() (SECURITY DEFINER: not subject to
\* the policies); an error in it aborts the insertion of the identity too.
Signup(id, email, meta) ==
    LET new == [id |-> id, email |-> email, full_name |-> meta]
        fires == pg_trigger["on_auth_user_created"]
        row == HandleNewUserRow(new)
        ok == \/ fires = 0
              \/ fires = 1 /\ ConstraintsHold(row, user_profiles, auth_users \cup {new})
    IN  /\ id \notin AuthIds
        /\ IF ok
           THEN /\ auth_users' = auth_users \cup {[id |-> id, email |-> email]}
                /\ user_profiles' = IF fires = 0 THEN user_profiles
                                    ELSE user_profiles \cup {row}
                /\ provisioned' = IF fires = 0 THEN provisioned
                                  ELSE provisioned \cup {id}
                /\ lastOp' = Op("signup", NULL, "ok")
           ELSE /\ lastOp' = Op("signup", NULL, "error")
                /\ UNCHANGED <<auth_users, user_profiles, provisioned>>
        /\ UNCHANGED <<tableExists, rlsEnabled, pg_policy, pg_proc, pg_trigger,
                       now, run,
                   appVars, classifierVars>>

\* DELETE FROM auth.users WHERE id = ...: ON DELETE CASCADE removes the profile.
CascadeDelete(id) ==
    /\ id \in AuthIds
    /\ auth_users' = {u \in auth_users : u.id # id}
    /\ user_profiles' = {r \in user_profiles : r.id # id}
    /\ provisioned' = provisioned \ {id}
    /\ lastOp' = Op("cascade", NULL, "ok")
    /\ UNCHANGED <<tableExists, rlsEnabled, pg_policy, pg_proc, pg_trigger, now, run,
                   appVars, classifierVars>>

\* INSERT INTO user_profiles (id, email, points, updated_at) by the
\* authenticated identity uid; the columns left out take their defaults.
DirectInsert(uid, id, email, points, updated_at) ==
    LET row == [id |-> id, email |-> email, full_name |-> NULL, points |-> points,
                created_at |-> now, updated_at |-> updated_at]
        ok == CanInsert(uid, row) /\ ConstraintsHold(row, user_profiles, auth_users)
    IN  /\ tableExists
        /\ uid \in AuthIds
        /\ user_profiles' = IF ok THEN user_profiles \cup {row} ELSE user_profiles
        /\ lastOp' = Op("insert", uid, IF ok THEN "ok" ELSE "error")
        /\ UNCHANGED <<auth_users, tableExists, rlsEnabled, pg_policy, pg_proc,
                       pg_trigger, now, run, provisioned,
                   appVars, classifierVars>>

UpdateUpdatedAtColumn_Skipped(new) == new

\* BEFORE UPDATE every trigger update_user_profiles_updated_at runs
\* update_updated_at_column(): NEW.updated_at = now().
UpdateUpdatedAtColumn(new) ==
    IF pg_trigger["update_user_profiles_updated_at"] > 0
    THEN [new EXCEPT !.updated_at = now]
    ELSE new

\* UPDATE user_profiles SET col = val WHERE id = ... by the authenticated
\* identity uid.  A row the USING expression hides is not updated (no error);
\* a new row the WITH CHECK expression or a constraint rejects is an error.
DirectUpdate(uid, id, col, val) ==
    /\ tableExists
    /\ uid \in AuthIds
    /\ \E old \in RowsOf(id) :
         LET new == UpdateUpdatedAtColumn([old EXCEPT ![col] = val])
             seen == CanSelect(uid, old) /\ CanUpdateFrom(uid, old)
             ok == /\ CanUpdateTo(uid, new)
                   /\ ConstraintsHold(new, user_profiles \ {old}, auth_users)
         IN  /\ user_profiles' = IF seen /\ ok
                                 THEN (user_profiles \ {old}) \cup {new}
                                 ELSE user_profiles
             /\ lastOp' = Op("update", uid, IF ~seen THEN "filtered" ELSE IF ok THEN "ok" ELSE "error")
    /\ UNCHANGED <<auth_users, tableExists, rlsEnabled, pg_policy, pg_proc,
                   pg_trigger, now, run, provisioned,
                   appVars, classifierVars>>

\* DELETE FROM user_profiles WHERE id = ... by the authenticated identity uid.
DirectDelete(uid, id) ==
    /\ tableExists
    /\ uid \in AuthIds
    /\ \E old \in RowsOf(id) :
         LET seen == CanSelect(uid, old) /\ CanDelete(uid, old)
         IN  /\ user_profiles' = IF seen THEN user_profiles \ {old} ELSE user_profiles
             /\ lastOp' = Op("delete", uid, IF seen THEN "ok" ELSE "filtered")
    /\ UNCHANGED <<auth_users, tableExists, rlsEnabled, pg_policy, pg_proc,
                   pg_trigger, now, run, provisioned,
                   appVars, classifierVars>>

\* A later transaction begins: the statements until the next Tick run in
\* transactions that started at the same reading of the clock.
Tick ==
    /\ now < MaxTime
    /\ now' = now + 1
    /\ lastOp' = NoOp
    /\ UNCHANGED <<auth_users, user_profiles, tableExists, rlsEnabled, pg_policy,
                   pg_proc, pg_trigger, run, provisioned,
                   appVars, classifierVars>>

\* The values clients write.
InsertedPoints == {DefaultPoints}
UpdatedColumns == {"id", "email", "full_name", "points", "created_at", "updated_at"}
UpdatedValues(col) ==
    CASE col = "id" -> Ids
      [] col = "email" -> Emails
      [] col = "full_name" -> {"Ann"}
      [] col = "points" -> {-1}
      [] col = "created_at" -> {0}
      [] col = "updated_at" -> {0}

StoreInit ==
    /\ auth_users = {}
    /\ user_profiles = {}
    /\ tableExists = FALSE
    /\ rlsEnabled = FALSE
    /\ pg_policy = [p \in PolicyNames |-> 0]
    /\ pg_proc = {}
    /\ pg_trigger = [t \in TriggerNames |-> 0]
    /\ now = 0
    /\ run = [n |-> 0, pc |-> 0, status |-> "none"]
    /\ provisioned = {}
    /\ lastOp = NoOp

\* ------------------------------------------------- the membership classifier

HomeGetMembershipLevel_Exclusive(p) ==
    IF p > 10000 THEN [level |-> "Diamond", color |-> "#8B5CF6"]
    ELSE IF p > 5000 THEN [level |-> "Gold", color |-> "#F59E0B"]
    ELSE IF p > 1000 THEN [level |-> "Silver", color |-> "#6B7280"]
    ELSE [level |-> "Bronze", color |-> "#92400E"]

\* HomeScreen.getMembershipLevel
HomeGetMembershipLevel(p) ==
    IF p >= 10000 THEN [level |-> "Diamond", color |-> "#8B5CF6"]
    ELSE IF p >= 5000 THEN [level |-> "Gold", color |-> "#F59E0B"]
    ELSE IF p >= 1000 THEN [level |-> "Silver", color |-> "#6B7280"]
    ELSE [level |-> "Bronze", color |-> "#92400E"]

\* ProfileScreen.getMembershipLevel
ProfileGetMembershipLevel(p) ==
    IF p >= 10000 THEN [level |-> "Diamond", color |-> "#8B5CF6", icon |-> "diamond"]
    ELSE IF p >= 5000 THEN [level |-> "Gold", color |-> "#F59E0B", icon |-> "trophy"]
    ELSE IF p >= 1000 THEN [level |-> "Silver", color |-> "#6B7280", icon |-> "2nd"]
    ELSE [level |-> "Bronze", color |-> "#92400E", icon |-> "3rd"]

\* The Home screen renders its badge for the balance.
ClassifyHome ==
    /\ homeLevel = Null
    /\ homeLevel' = HomeGetMembershipLevel(balance)
    /\ UNCHANGED <<balance, profileLevel, storeVars, appVars>>

\* The Profile screen renders its badge for the balance.
ClassifyProfile ==
    /\ profileLevel = Null
    /\ profileLevel' = ProfileGetMembershipLevel(balance)
    /\ UNCHANGED <<balance, homeLevel, storeVars, appVars>>

\* ------------------------------------------------------------ the screens

Screens == {"Home", "Profile"}
Index == "/"
Tabs == "/(tabs)"
SignInRoute == "/(auth)/sign-in"

\* Number.prototype.toLocaleString() of an integer, en-US: groups of three
\* digits separated by commas.
Digits == <<"0", "1", "2", "3", "4", "5", "6", "7", "8", "9">>
RECURSIVE Plain(_)
Plain(n) == IF n < 10 THEN Digits[n + 1] ELSE Plain(n \div 10) \o Digits[(n % 10) + 1]
Pad3(n) == Digits[(n \div 100) + 1] \o Digits[((n \div 10) % 10) + 1] \o Digits[(n % 10) + 1]
RECURSIVE Grouped(_)
Grouped(n) == IF n < 1000 THEN Plain(n) ELSE Grouped(n \div 1000) \o "," \o Pad3(n % 1000)
ToLocaleString(n) == IF n < 0 THEN "-" \o Grouped(-n) ELSE Grouped(n)

\* HomeScreen: {userProfile ? formatPoints(userProfile.points) : '0'}
HomePointsDisplay(profile) ==
    IF profile # Null THEN ToLocaleString(profile.points) ELSE "0"
\* ProfileScreen: {userProfile?.points.toLocaleString() || '0'}
ProfilePointsDisplay(profile) ==
    LET text == IF profile # Null THEN ToLocaleString(profile.points) ELSE NULL
    IN  IF text = NULL \/ text = "" THEN "0" ELSE text
PointsDisplay(s) ==
    IF s = "Home" THEN HomePointsDisplay(userProfile[s])
    ELSE ProfilePointsDisplay(userProfile[s])

\* membershipInfo = userProfile ? getMembershipLevel(userProfile.points) : null
MembershipInfo(s) ==
    IF userProfile[s] = Null THEN Null
    ELSE IF s = "Home" THEN HomeGetMembershipLevel(userProfile[s].points)
    ELSE ProfileGetMembershipLevel(userProfile[s].points)

\* The authentication context, while unresolved, learns the stored session's
\* identity (or that there is none).
AuthSetUser(u) ==
    /\ authLoading
    /\ u \in AuthIds \cup {NULL}
    /\ user' = u
    /\ indexEffectDue' = (indexEffectDue \/ (route = Index /\ u # user))
    /\ fetchDue' = [s \in Screens |-> fetchDue[s] \/ (mounted[s] /\ u # user)]
    /\ UNCHANGED <<authLoading, route, indexNavs, mounted, userProfile, loading,
                   refreshing, inFlight, alert, lastFetch, signOutVars, storeVars,
                   classifierVars>>

\* The authentication state is resolved.
AuthResolve ==
    /\ authLoading
    /\ authLoading' = FALSE
    /\ indexEffectDue' = (indexEffectDue \/ route = Index)
    /\ UNCHANGED <<user, route, indexNavs, screenVars, signOutVars, storeVars,
                   classifierVars>>

\* The context replaces the identity object of the signed-in user (a refreshed
\* session): every effect that depends on [user] is due again.
AuthUserChanged ==
    /\ ~authLoading
    /\ user # NULL
    /\ indexEffectDue' = (indexEffectDue \/ route = Index)
    /\ fetchDue' = [s \in Screens |-> fetchDue[s] \/ mounted[s]]
    /\ UNCHANGED <<authVars, route, indexNavs, mounted, userProfile, loading,
                   refreshing, inFlight, alert, lastFetch, signOutVars, storeVars,
                   classifierVars>>

\* router.replace(to) from IndexScreen or the Profile screen: the screens of
\* the route left are unmounted; the authenticated area opens on Home, whose
\* state is the initial state of a newly mounted component.
Replace(to) ==
    /\ route' = to
    /\ mounted' = [s \in Screens |-> to = Tabs /\ s = "Home"]
    /\ fetchDue' = [s \in Screens |-> to = Tabs /\ s = "Home"]
    /\ userProfile' = [s \in Screens |-> Null]
    /\ loading' = [s \in Screens |-> TRUE]
    /\ refreshing' = [s \in Screens |-> FALSE]

IndexEffect_IgnoresLoading ==
    /\ route = Index
    /\ indexEffectDue
    /\ indexEffectDue' = FALSE
    /\ LET to == IF user # NULL THEN Tabs ELSE SignInRoute
       IN  /\ Replace(to)
           /\ indexNavs' = Append(indexNavs, [to |-> to, user |-> user])
    /\ UNCHANGED <<authVars, inFlight, alert, lastFetch, signOutVars, storeVars,
                   classifierVars>>

\* IndexScreen's useEffect(..., [user, loading]).
IndexEffect ==
    /\ route = Index
    /\ indexEffectDue
    /\ indexEffectDue' = FALSE
    /\ IF ~authLoading
       THEN LET to == IF user # NULL THEN Tabs ELSE SignInRoute
            IN  /\ Replace(to)
                /\ indexNavs' = Append(indexNavs, [to |-> to, user |-> user])
       ELSE UNCHANGED <<route, indexNavs, mounted, fetchDue, userProfile, loading,
                        refreshing>>
    /\ UNCHANGED <<authVars, inFlight, alert, lastFetch, signOutVars, storeVars,
                   classifierVars>>

\* The user opens the Profile tab for the first time.
OpenProfileTab ==
    /\ route = Tabs
    /\ ~mounted["Profile"]
    /\ mounted' = [mounted EXCEPT !["Profile"] = TRUE]
    /\ fetchDue' = [fetchDue EXCEPT !["Profile"] = TRUE]
    /\ UNCHANGED <<authVars, navVars, userProfile, loading, refreshing, inFlight,
                   alert, lastFetch, signOutVars, storeVars, classifierVars>>

\* The calls of fetchUserProfile awaiting the store, on both screens.
InFlightCount == Len(inFlight["Home"]) + Len(inFlight["Profile"])

\* fetchUserProfile up to its await: nothing without an identity, otherwise
\* the query for the identity's row is sent.
FetchStarted(s, kind) ==
    IF user = NULL THEN inFlight[s]
    ELSE Append(inFlight[s], [kind |-> kind, uid |-> user])

\* useEffect(() => { fetchUserProfile(); }, [user]) of screen s.
FetchEffect(s) ==
    /\ mounted[s]
    /\ fetchDue[s]
    /\ InFlightCount < MaxInFlight
    /\ fetchDue' = [fetchDue EXCEPT ![s] = FALSE]
    /\ inFlight' = [inFlight EXCEPT ![s] = FetchStarted(s, "effect")]
    /\ UNCHANGED <<authVars, navVars, mounted, userProfile, loading, refreshing,
                   alert, lastFetch, signOutVars, storeVars, classifierVars>>

OnRefresh_ClearsProfile(s) ==
    /\ mounted[s]
    /\ ~loading[s]
    /\ ~refreshing[s]
    /\ InFlightCount < MaxInFlight
    /\ refreshing' = [refreshing EXCEPT ![s] = (user # NULL)]
    /\ userProfile' = [userProfile EXCEPT ![s] = Null]
    /\ inFlight' = [inFlight EXCEPT ![s] = FetchStarted(s, "refresh")]
    /\ UNCHANGED <<authVars, navVars, mounted, loading, fetchDue,
                   alert, lastFetch, signOutVars, storeVars, classifierVars>>

\* onRefresh of screen s up to its await.  The RefreshControl belongs to the
\* view shown once loading is false, and does not fire while it is refreshing.
\* Without an identity fetchUserProfile returns at once, and refreshing is
\* false again when the handler is through.
OnRefresh(s) ==
    /\ mounted[s]
    /\ ~loading[s]
    /\ ~refreshing[s]
    /\ InFlightCount < MaxInFlight
    /\ refreshing' = [refreshing EXCEPT ![s] = (user # NULL)]
    /\ inFlight' = [inFlight EXCEPT ![s] = FetchStarted(s, "refresh")]
    /\ UNCHANGED <<authVars, navVars, mounted, userProfile, loading, fetchDue,
                   alert, lastFetch, signOutVars, storeVars, classifierVars>>

\* supabase.from('user_profiles').select('*').eq('id', uid).single() as uid:
\* the row, or Null for the error single() returns unless exactly one row matches.
SelectSingle(uid) ==
    LET rows == {r \in VisibleRows(uid) : r.id = uid}
    IN  IF tableExists /\ Cardinality(rows) = 1 THEN CHOOSE r \in rows : TRUE ELSE Null

Sequence_Without(q, i) == [j \in 1..(Len(q) - 1) |-> IF j < i THEN q[j] ELSE q[j + 1]]

\* How the awaited query of a fetch ends: "data", "error" or "threw".
FetchOutcome(f, transport) ==
    IF transport = "throws" THEN "threw"
    ELSE IF transport = "fails" \/ SelectSingle(f.uid) = Null THEN "error"
    ELSE "data"

\* What fetchUserProfile does to userProfile once the query has ended.
ProfileAfterFetch(profile, f, outcome) ==
    IF outcome = "data" THEN SelectSingle(f.uid) ELSE profile

AlertAfterFetch_SilentOnThrow(shown, outcome) ==
    IF outcome = "error" THEN "Failed to load profile data" ELSE shown

\* The alert fetchUserProfile shows once the query has ended.
AlertAfterFetch(shown, outcome) ==
    IF outcome = "error" THEN "Failed to load profile data"
    ELSE IF outcome = "threw" THEN "Something went wrong"
    ELSE shown

FetchComplete_NoFinally(s, i, transport) ==
    /\ i \in 1..Len(inFlight[s])
    /\ LET f == inFlight[s][i]
           outcome == FetchOutcome(f, transport)
       IN  /\ inFlight' = [inFlight EXCEPT ![s] = Sequence_Without(@, i)]
           /\ alert' = [alert EXCEPT ![s] = AlertAfterFetch(@, outcome)]
           /\ lastFetch' = [lastFetch EXCEPT ![s] = [kind |-> f.kind, outcome |-> outcome]]
           /\ IF mounted[s]
              THEN /\ userProfile' =
                        [userProfile EXCEPT ![s] = ProfileAfterFetch(@, f, outcome)]
                   /\ loading' = [loading EXCEPT ![s] = IF outcome = "data" THEN FALSE ELSE @]
                   /\ refreshing' =
                        [refreshing EXCEPT ![s] = IF f.kind = "refresh" THEN FALSE ELSE @]
              ELSE UNCHANGED <<userProfile, loading, refreshing>>
    /\ UNCHANGED <<authVars, navVars, mounted, fetchDue, signOutVars, storeVars,
                   classifierVars>>

\* The rest of fetchUserProfile on screen s, for its i-th call in flight, and
\* for a refresh the rest of onRefresh: setRefreshing(false).  The state of an
\* unmounted screen is not updated.
FetchComplete(s, i, transport) ==
    /\ i \in 1..Len(inFlight[s])
    /\ LET f == inFlight[s][i]
           outcome == FetchOutcome(f, transport)
       IN  /\ inFlight' = [inFlight EXCEPT ![s] = Sequence_Without(@, i)]
           /\ alert' = [alert EXCEPT ![s] = AlertAfterFetch(@, outcome)]
           /\ lastFetch' = [lastFetch EXCEPT ![s] = [kind |-> f.kind, outcome |-> outcome]]
           /\ IF mounted[s]
              THEN /\ userProfile' =
                        [userProfile EXCEPT ![s] = ProfileAfterFetch(@, f, outcome)]
                   /\ loading' = [loading EXCEPT ![s] = FALSE]
                   /\ refreshing' =
                        [refreshing EXCEPT ![s] = IF f.kind = "refresh" THEN FALSE ELSE @]
              ELSE UNCHANGED <<userProfile, loading, refreshing>>
    /\ UNCHANGED <<authVars, navVars, mounted, fetchDue, signOutVars, storeVars,
                   classifierVars>>

\* ProfileScreen.handleSignOut: the confirmation prompt, nothing else.
HandleSignOut ==
    /\ mounted["Profile"]
    /\ ~loading["Profile"]
    /\ prompt = FALSE
    /\ signOutCall = "idle"
    /\ prompt' = TRUE
    /\ UNCHANGED <<signOutCall, signOutResult, authVars, navVars, screenVars,
                   storeVars, classifierVars>>

\* 'Cancel'
CancelSignOut ==
    /\ prompt
    /\ prompt' = FALSE
    /\ UNCHANGED <<signOutCall, signOutResult, authVars, navVars, screenVars,
                   storeVars, classifierVars>>

\* 'Sign Out': onPress up to its await of signOut().
ConfirmSignOut ==
    /\ prompt
    /\ prompt' = FALSE
    /\ signOutCall' = "pending"
    /\ UNCHANGED <<signOutResult, authVars, navVars, screenVars, storeVars,
                   classifierVars>>

\* signOut() of the authentication context returns, having cleared the session
\* or having failed to.
SignOutReturns(cleared) ==
    /\ signOutCall = "pending"
    /\ signOutCall' = "resolved"
    /\ signOutResult' = IF cleared THEN "cleared" ELSE "failed"
    /\ user' = IF cleared THEN NULL ELSE user
    /\ fetchDue' = [s \in Screens |-> fetchDue[s] \/ (mounted[s] /\ cleared /\ user # NULL)]
    /\ UNCHANGED <<authLoading, navVars, prompt, mounted, userProfile, loading,
                   refreshing, inFlight, alert, lastFetch, storeVars, classifierVars>>

SignOutContinue_OnlyIfCleared ==
    /\ signOutCall = "resolved"
    /\ signOutCall' = "idle"
    /\ IF user = NULL
       THEN Replace(SignInRoute)
       ELSE UNCHANGED <<route, mounted, fetchDue, userProfile, loading, refreshing>>
    /\ UNCHANGED <<prompt, signOutResult, authVars, indexEffectDue, indexNavs,
                   inFlight, alert, lastFetch, storeVars, classifierVars>>

\* The rest of onPress: router.replace('/(auth)/sign-in').
SignOutContinue ==
    /\ signOutCall = "resolved"
    /\ signOutCall' = "idle"
    /\ Replace(SignInRoute)
    /\ UNCHANGED <<prompt, signOutResult, authVars, indexEffectDue, indexNavs,
                   inFlight, alert, lastFetch, storeVars, classifierVars>>

\* ------------------------------------------------------ the specifications

\* The application as it starts: the splash screen, authentication unresolved.
AppInit ==
    /\ user = NULL
    /\ authLoading = TRUE
    /\ route = Index
    /\ indexEffectDue = TRUE
    /\ indexNavs = <<>>
    /\ mounted = [s \in Screens |-> FALSE]
    /\ userProfile = [s \in Screens |-> Null]
    /\ loading = [s \in Screens |-> TRUE]
    /\ refreshing = [s \in Screens |-> FALSE]
    /\ fetchDue = [s \in Screens |-> FALSE]
    /\ inFlight = [s \in Screens |-> <<>>]
    /\ alert = [s \in Screens |-> NULL]
    /\ lastFetch = [s \in Screens |-> [kind |-> "none", outcome |-> "none"]]
    /\ prompt = FALSE
    /\ signOutCall = "idle"
    /\ signOutResult = "none"

ClassifierIdle ==
    /\ balance = 0
    /\ homeLevel = Null
    /\ profileLevel = Null

\* The store: the script, the identity service and the clients.
Init == StoreInit /\ AppInit /\ ClassifierIdle

Next ==
    \/ StartRun
    \/ CreateTable
    \/ EnableRls
    \/ CreatePolicyRead
    \/ CreatePolicyUpdate
    \/ CreatePolicyInsert
    \/ CreateHandleNewUser
    \/ CreateOnAuthUserCreated
    \/ CreateUpdateUpdatedAtColumn
    \/ CreateUpdatedAtTrigger
    \/ \E id \in Ids, email \in Emails, meta \in MetaNames : Signup(id, email, meta)
    \/ \E id \in Ids : CascadeDelete(id)
    \/ \E uid \in Ids, id \in Ids, email \in Emails, points \in InsertedPoints :
          DirectInsert(uid, id, email, points, now)
    \/ \E uid \in Ids, id \in Ids, col \in UpdatedColumns :
          \E val \in UpdatedValues(col) : DirectUpdate(uid, id, col, val)
    \/ \E uid \in Ids, id \in Ids : DirectDelete(uid, id)

Spec == Init /\ [][Next]_vars

\* The application against a provisioned store: u2 signed up before the
\* script ran and has no profile, u1 signed up after it.
ProvisionedStore ==
    /\ auth_users = {[id |-> "u1", email |-> "a@x.com"], [id |-> "u2", email |-> "b@x.com"]}
    /\ user_profiles = {[id |-> "u1", email |-> "a@x.com", full_name |-> "",
                         points |-> InitialPoints, created_at |-> 0, updated_at |-> 0]}
    /\ tableExists = TRUE
    /\ rlsEnabled = TRUE
    /\ pg_policy = [p \in PolicyNames |-> 1]
    /\ pg_proc = FunctionNames
    /\ pg_trigger = [t \in TriggerNames |-> 1]
    /\ now = 0
    /\ run = [n |-> 1, pc |-> 0, status |-> "completed"]
    /\ provisioned = {"u1"}
    /\ lastOp = Op("signup", NULL, "ok")

\* The provisioned store in operation: the clock, the identity service and
\* the clients.
ProvisionedInit == ProvisionedStore /\ AppInit /\ ClassifierIdle

ProvisionedNext ==
    \/ Tick
    \/ \E id \in Ids, email \in Emails, meta \in MetaNames : Signup(id, email, meta)
    \/ \E id \in Ids : CascadeDelete(id)
    \/ \E uid \in Ids, id \in Ids, email \in Emails, points \in InsertedPoints,
          updated_at \in {now, MaxTime} : DirectInsert(uid, id, email, points, updated_at)
    \/ \E uid \in Ids, id \in Ids, col \in UpdatedColumns :
          \E val \in UpdatedValues(col) : DirectUpdate(uid, id, col, val)
    \/ \E uid \in Ids, id \in Ids : DirectDelete(uid, id)

ProvisionedSpec == ProvisionedInit /\ [][ProvisionedNext]_vars

AppSpecInit == ProvisionedStore /\ AppInit /\ ClassifierIdle

AppNext ==
    \/ \E u \in Ids \cup {NULL} : AuthSetUser(u)
    \/ AuthResolve
    \/ AuthUserChanged
    \/ IndexEffect
    \/ OpenProfileTab
    \/ \E s \in Screens : FetchEffect(s)
    \/ \E s \in Screens : OnRefresh(s)
    \/ \E s \in Screens, i \in 1..MaxInFlight, transport \in {"responds", "fails", "throws"} :
          FetchComplete(s, i, transport)
    \/ HandleSignOut
    \/ CancelSignOut
    \/ ConfirmSignOut
    \/ \E cleared \in BOOLEAN : SignOutReturns(cleared)
    \/ SignOutContinue
    \/ \E id \in Ids : DirectUpdate(id, id, "points", -1)

AppSpec == AppSpecInit /\ [][AppNext]_vars

\* The classifier applied to every balance from 0 to MaxPoints.
ClassifierInit ==
    /\ StoreInit
    /\ AppInit
    /\ balance \in 0..MaxPoints
    /\ homeLevel = Null
    /\ profileLevel = Null

ClassifierNext == ClassifyHome \/ ClassifyProfile

ClassifierSpec == ClassifierInit /\ [][ClassifierNext]_vars

\* ---------------------------------------------------------------- claims

\* The row an update replaced, and the row it put in its place.
RowsReplaced == user_profiles \ user_profiles'
RowsWritten == user_profiles' \ user_profiles

\* The store the application and the clock specifications start from is a
\* state the script, a signup before it and a signup after it lead to.
ProvisionedStoreReached == ProvisionedStore

\* C1: for every balance p >= 0 both screens' getMembershipLevel(p) return the
\* one tier, with its colour, whose range in the table holds p: Diamond from
\* 10000, Gold 5000..9999, Silver 1000..4999, Bronze below 1000.
TierTable ==
    {[level |-> "Diamond", color |-> "#8B5CF6", from |-> 10000, below |-> MaxPoints + 1],
     [level |-> "Gold", color |-> "#F59E0B", from |-> 5000, below |-> 10000],
     [level |-> "Silver", color |-> "#6B7280", from |-> 1000, below |-> 5000],
     [level |-> "Bronze", color |-> "#92400E", from |-> 0, below |-> 1000]}
TiersOf(p) == {t \in TierTable : t.from <= p /\ p < t.below}
AgreesWithTable(result, p) ==
    /\ Cardinality(TiersOf(p)) = 1
    /\ \A t \in TiersOf(p) : result.level = t.level /\ result.color = t.color
C1_ClassifierFollowsTable ==
    /\ homeLevel # Null => AgreesWithTable(homeLevel, balance)
    /\ profileLevel # Null => AgreesWithTable(profileLevel, balance)
C1_Witness ==
    /\ balance = 5000
    /\ homeLevel # Null /\ homeLevel.level = "Gold"
    /\ profileLevel # Null /\ profileLevel.level = "Gold"

\* C2: once the trigger on_auth_user_created is installed, an identity
\* inserted into auth.users has exactly one user_profiles row, with the
\* identity's id and email, the metadata's full_name or '' when it has none,
\* and 1000 points; and every identity inserted since then has exactly one
\* row for as long as it exists.
SignupRow(r, id, email, meta) ==
    /\ r.id = id
    /\ r.email = email
    /\ r.full_name = (IF meta = NULL THEN "" ELSE meta)
    /\ r.points = 1000
C2_SignupYieldsOneProfile ==
    /\ [](\A id \in provisioned : id \in AuthIds /\ Cardinality(RowsOf(id)) = 1)
    /\ [][\A id \in Ids, email \in Emails, meta \in MetaNames :
            (/\ pg_trigger["on_auth_user_created"] > 0
             /\ Signup(id, email, meta)
             /\ lastOp'.result = "ok")
            => /\ Cardinality({r \in user_profiles' : r.id = id}) = 1
               /\ \A r \in user_profiles' : r.id = id => SignupRow(r, id, email, meta)]_vars
C2_Witness ==
    /\ lastOp = Op("signup", NULL, "ok")
    /\ provisioned = Ids
    /\ \E r \in user_profiles : r.full_name = "" /\ r.points = 1000 /\ r.email = "a@x.com"

\* C3: a run of the script on a store it has already run on completes, and
\* leaves one table, one of each of the three policies and one of each of the
\* two triggers.
C3_SecondRunCompletes ==
    (run.n >= 2 /\ run.pc = 0)
    => /\ run.status = "completed"
       /\ tableExists
       /\ \A p \in PolicyNames : pg_policy[p] = 1
       /\ \A t \in TriggerNames : pg_trigger[t] = 1

\* C4: under row level security an authenticated identity sees, updates and
\* inserts only rows whose id is its own (an update: before and after), no
\* direct delete removes a row, and a row disappears only with its identity.
C4_OwnRowOnly ==
    /\ [](rlsEnabled => \A uid \in Ids : \A r \in VisibleRows(uid) : r.id = uid)
    /\ [][rlsEnabled =>
            /\ (lastOp'.op \in {"update", "insert"} /\ lastOp'.result = "ok")
               => \A r \in RowsReplaced \cup RowsWritten : r.id = lastOp'.uid
            /\ lastOp'.op \in {"update", "insert", "delete"} /\ lastOp'.result # "ok"
               => user_profiles' = user_profiles
            /\ lastOp'.op = "delete" => user_profiles' = user_profiles
            /\ \A id \in ProfileIds : id \notin ProfileIds' => id \notin AuthIds']_vars
C4_Witness ==
    /\ rlsEnabled
    /\ \A p \in PolicyNames : pg_policy[p] = 1
    /\ lastOp = Op("update", "u1", "filtered")
    /\ Cardinality(user_profiles) = 2

\* C9 as stated: every update of a row, once the trigger
\* update_user_profiles_updated_at is installed, makes updated_at strictly
\* greater than it was and leaves created_at as it was.
C9_UpdatedAtStrictlyGreater ==
    [][(/\ pg_trigger["update_user_profiles_updated_at"] > 0
        /\ lastOp'.op = "update"
        /\ lastOp'.result = "ok")
       => \A old \in RowsReplaced, new \in RowsWritten :
            new.updated_at > old.updated_at /\ new.created_at = old.created_at]_vars

\* C9, amended: every update of a row, once the trigger is installed, sets
\* updated_at to now() whatever the statement assigns, which is strictly
\* greater than before whenever the row's updated_at was earlier than now();
\* and created_at keeps its value unless the statement assigns created_at.
C9_UpdatedAtIsNow ==
    [][(/\ pg_trigger["update_user_profiles_updated_at"] > 0
        /\ lastOp'.op = "update"
        /\ lastOp'.result = "ok")
       => \A old \in RowsReplaced, new \in RowsWritten :
            /\ new.updated_at = now
            /\ old.updated_at < now => new.updated_at > old.updated_at
            /\ new.created_at = old.created_at
               \/ \E val \in UpdatedValues("created_at") :
                     DirectUpdate(lastOp'.uid, old.id, "created_at", val)]_vars
C9_Witness ==
    /\ lastOp.op = "update" /\ lastOp.result = "ok"
    /\ pg_trigger["update_user_profiles_updated_at"] > 0
    /\ \E r \in user_profiles :
         r.full_name = "Ann" /\ r.updated_at = now /\ r.updated_at > r.created_at

\* C10: after any sequence of signups, policy-permitted inserts and updates
\* and cascading deletes on the provisioned store, the points of every row
\* are a non-negative integer.
C10_PointsNonNegative == \A r \in user_profiles : r.points \in Nat

\* C5: IndexScreen navigates nowhere while loading is true; once loading is
\* false and its effect has run it has navigated exactly once, to '/(tabs)' if
\* an identity was present and to '/(auth)/sign-in' if not.
C5_RoutesOncePerResolution ==
    /\ authLoading => (indexNavs = <<>> /\ route = Index)
    /\ Len(indexNavs) <= 1
    /\ \A i \in 1..Len(indexNavs) :
         /\ indexNavs[i].user # NULL => indexNavs[i].to = "/(tabs)"
         /\ indexNavs[i].user = NULL => indexNavs[i].to = "/(auth)/sign-in"
    /\ (~authLoading /\ ~indexEffectDue) => Len(indexNavs) = 1
    /\ route = Index => indexNavs = <<>>
C5_Witness ==
    /\ ~authLoading
    /\ route = "/(tabs)"
    /\ indexNavs = <<[to |-> "/(tabs)", user |-> "u1"]>>
    /\ user = "u1"

\* A step in which a fetchUserProfile of the mounted screen s ends in failure.
FetchFails(s) ==
    /\ mounted[s]
    /\ Len(inFlight'[s]) < Len(inFlight[s])
    /\ lastFetch'[s].outcome \in {"error", "threw"}

\* C6 as stated: after a fetchUserProfile of a screen has failed the screen
\* has shown an error alert and its points display is '0'.
C6_FailedFetchShowsZero ==
    \A s \in Screens :
      (mounted[s] /\ lastFetch[s].outcome \in {"error", "threw"})
      => (alert[s] # NULL /\ PointsDisplay(s) = "0")

\* C6, amended: a fetchUserProfile that fails on a mounted screen shows the
\* error alert, starts no other fetch, sets loading to false and leaves
\* userProfile as it was: the points display is '0' if no profile had been
\* fetched, and otherwise still shows the points fetched before.
C6_FailedFetchKeepsProfile ==
    [][\A s \in Screens :
         FetchFails(s)
         => /\ alert'[s] = (IF lastFetch'[s].outcome = "error"
                            THEN "Failed to load profile data"
                            ELSE "Something went wrong")
            /\ userProfile'[s] = userProfile[s]
            /\ ~loading'[s]
            /\ InFlightCount' = InFlightCount - 1
            /\ fetchDue' = fetchDue
            /\ PointsDisplay(s)' = (IF userProfile[s] = Null THEN "0" ELSE PointsDisplay(s))]_vars
C6_Witness ==
    \E s \in Screens :
      /\ mounted[s]
      /\ lastFetch[s].outcome = "error"
      /\ alert[s] = "Failed to load profile data"
      /\ userProfile[s] = Null
      /\ ~loading[s]
      /\ PointsDisplay(s) = "0"

\* C7: the sign-out action only shows the prompt; cancelling changes neither
\* the session nor the route; signOut() is called only on confirmation; the
\* Profile screen's navigation to '/(auth)/sign-in' happens only once signOut()
\* has returned, and then it happens whether or not the session was cleared.
C7_SignOutThenNavigate ==
    [][/\ (~prompt /\ prompt') => (user' = user /\ route' = route /\ signOutCall' = signOutCall)
       /\ (prompt /\ ~prompt' /\ signOutCall' = signOutCall) => (user' = user /\ route' = route)
       /\ (signOutCall # "pending" /\ signOutCall' = "pending") => (prompt /\ route' = route)
       /\ user' # user /\ route = "/(tabs)" => signOutCall = "pending"
       /\ (route = "/(tabs)" /\ route' # route) => signOutCall = "resolved"
       /\ (signOutCall = "resolved" /\ signOutCall' # "resolved")
          => route' = "/(auth)/sign-in"]_vars
C7_Witness ==
    /\ route = "/(auth)/sign-in"
    /\ signOutResult = "failed"
    /\ signOutCall = "idle"
    /\ user # NULL

\* C8: while a screen stays mounted its userProfile changes only when a fetch
\* delivers a row: starting a refresh leaves it as it is, and so does a
\* refresh (or any fetch) that fails.
C8_RefreshKeepsProfile ==
    [][\A s \in Screens :
         (mounted[s] /\ mounted'[s])
         => /\ (~refreshing[s] /\ refreshing'[s]) => userProfile'[s] = userProfile[s]
            /\ FetchFails(s) => userProfile'[s] = userProfile[s]
            /\ userProfile'[s] # userProfile[s]
               => /\ lastFetch'[s].outcome = "data"
                  /\ Len(inFlight'[s]) < Len(inFlight[s])
                  /\ userProfile'[s] # Null]_vars
C8_Witness ==
    \E s \in Screens :
      /\ mounted[s]
      /\ lastFetch[s] = [kind |-> "refresh", outcome |-> "error"]
      /\ ~refreshing[s]
      /\ userProfile[s] # Null

\* C11: on each screen at most one call of fetchUserProfile awaits the store
\* at any time, whether it was started by the mount, by a change of the
\* identity or by a pull-to-refresh.
C11_AtMostOneFetchInFlight == \A s \in Screens : Len(inFlight[s]) <= 1

\* A step in which the [user] effect of the mounted screen s calls
\* fetchUserProfile.
FetchCalled(s) == mounted[s] /\ mounted'[s] /\ fetchDue[s] /\ ~fetchDue'[s]

\* A step in which a call of fetchUserProfile of the mounted screen s completes.
FetchCompleted(s) == mounted[s] /\ mounted'[s] /\ Len(inFlight'[s]) < Len(inFlight[s])

\* C12 as stated, its last clause: a mounted screen that is in its loading
\* view stays in it for as long as the identity is null.
C12_LoadingViewWhileIdentityNull ==
    [][\A s \in Screens :
         (mounted[s] /\ mounted'[s] /\ loading[s] /\ user = "<null>" /\ user' = "<null>")
         => loading'[s]]_vars

\* C12, amended: a screen is mounted with loading true and no profile; a call of
\* fetchUserProfile made with an identity reads the store and sets loading to
\* false when it completes, whatever its outcome; only such a completion
\* takes a mounted screen out of its loading view, and loading never becomes
\* true again; a call made without an identity sends no query, shows no alert
\* and changes neither loading nor userProfile, so a screen in its loading
\* view with no call awaiting the store stays there while the identity is
\* null.
C12_LoadingEndsOnlyThroughFetch ==
    [][\A s \in Screens :
         /\ (~mounted[s] /\ mounted'[s]) => (loading'[s] /\ userProfile'[s] = Null)
         /\ FetchCompleted(s)
            => /\ ~loading'[s]
               /\ lastFetch'[s].outcome \in {"data", "error", "threw"}
         /\ (mounted[s] /\ mounted'[s] /\ loading[s] /\ ~loading'[s]) => FetchCompleted(s)
         /\ (mounted[s] /\ mounted'[s] /\ ~loading[s]) => ~loading'[s]
         /\ (FetchCalled(s) /\ user # "<null>")
            => /\ Len(inFlight'[s]) = Len(inFlight[s]) + 1
               /\ inFlight'[s][Len(inFlight'[s])].uid = user
               /\ loading' = loading
         /\ (FetchCalled(s) /\ user = "<null>")
            => /\ inFlight' = inFlight
               /\ alert' = alert
               /\ loading' = loading
               /\ userProfile' = userProfile
         /\ (mounted[s] /\ mounted'[s] /\ loading[s] /\ inFlight[s] = <<>>
               /\ user = "<null>" /\ user' = "<null>")
            => loading'[s]]_vars
C12_Witness ==
    /\ user = "<null>"
    /\ mounted["Home"] /\ loading["Home"] /\ ~fetchDue["Home"]
    /\ inFlight["Home"] = <<>> /\ lastFetch["Home"].kind = "none"
    /\ userProfile["Home"] = Null /\ alert["Home"] = "<null>"
    /\ mounted["Profile"] /\ ~loading["Profile"] /\ ~fetchDue["Profile"]
    /\ lastFetch["Profile"].outcome = "threw"

====
